---- MODULE Spec2Model ----
(***************************************************************************)
(* Model of the trivia game session manager of                             *)
(* src/src/mastra/tools/game-tools.ts: the in-memory map gameStates and    *)
(* the tools startGameTool, answerQuestionTool, getHintTool and            *)
(* skipQuestionTool that read and mutate it, and the tools                 *)
(* getLeaderboardTool and getGameStatsTool that read it.                   *)
(*                                                                         *)
(* Conventions.                                                            *)
(*  - A JavaScript string is a sequence of one-character strings, so that  *)
(*    trim(), toUpperCase() and the /^[A-D]$/ test are computed, not       *)
(*    assumed.                                                             *)
(*  - An optional value (userAnswer?: string) is a sequence of length at   *)
(*    most one: << >> is undefined, <<v>> is the value v.                  *)
(*  - gameStates (a Map) is a function whose DOMAIN is the set of keys;    *)
(*    keyOrder lists the keys in the order the Map iterates them.          *)
(*  - Math.random() is an input: a rational <<num, den>> in [0, 1).        *)
(*  - The handlers of answer/hint/skip contain no await, so each runs to   *)
(*    completion as one action; startGameTool suspends at its fetch, so    *)
(*    it is a call step (StartGameCall) and a resumption step              *)
(*    (StartGameResolve or StartGameReject).                               *)
(*  - Fields that no handler ever reads back (id, category, question       *)
(*    text, lastPlayed) are left out of the records.                       *)
(***************************************************************************)
EXTENDS Integers, Sequences, FiniteSets, TLC

(***************************************************************************)
(* Bounds of the exploration.                                              *)
(***************************************************************************)
\* longest result list the content provider returns, and largest
\* questionsCount a caller asks for
MaxQuestions == 3
\* most startGameTool calls suspended at their fetch at one time
MaxInflight == 1
\* the players of the leaderboard game
BoardSize == 11

(***************************************************************************)
(* Program constants.                                                      *)
(***************************************************************************)
BasePoints == 10
\* the length of the leaderboard: slice(0, 10)
TopN == 10
HintPenalty == 2
SkipPenalty == 1
MaxHints == 3
MaxSkips == 2

(***************************************************************************)
(* Strings.                                                                *)
(***************************************************************************)
UpperOf ==
  ("a" :> "A") @@ ("b" :> "B") @@ ("c" :> "C") @@ ("d" :> "D") @@
  ("x" :> "X") @@ ("y" :> "Y") @@ ("z" :> "Z") @@ ("w" :> "W")

CharCode == ("A" :> 65) @@ ("B" :> 66) @@ ("C" :> 67) @@ ("D" :> 68)

\* String.prototype.toUpperCase
ToUpperCase(str) ==
  [i \in 1..Len(str) |-> IF str[i] \in DOMAIN UpperOf THEN UpperOf[str[i]] ELSE str[i]]

\* String.prototype.trim
Trim(str) ==
  LET kept == {i \in 1..Len(str) : str[i] # " "}
      first == CHOOSE i \in kept : \A k \in kept : i <= k
      last == CHOOSE i \in kept : \A k \in kept : i >= k
  IN IF kept = {} THEN << >> ELSE SubSeq(str, first, last)

\* /^[A-D]$/.test(str)
IsLetterAD(str) == Len(str) = 1 /\ str[1] \in DOMAIN CharCode

\* the HTML entities decodeHtml replaces; an entity is one element of a string
EntityOf == ("&amp;" :> "&") @@ ("&lt;" :> "<") @@ ("&quot;" :> "\"")

DecodeHtml(str) ==
  [i \in 1..Len(str) |-> IF str[i] \in DOMAIN EntityOf THEN EntityOf[str[i]] ELSE str[i]]

(***************************************************************************)
(* Randomness and shuffleArray.                                            *)
(***************************************************************************)
\* Math.floor(r * n) for r = <<num, den>>
FloorRandom(r, n) == (r[1] * n) \div r[2]

Swap(arr, a, b) == [arr EXCEPT ![a] = arr[b], ![b] = arr[a]]

\* the loop of shuffleArray from 0-based position i down to 1; rnd[i] is the
\* value Math.random() returns in the iteration for position i
RECURSIVE ShuffleFrom(_, _, _)
ShuffleFrom(shuffled, i, rnd) ==
  IF i <= 0 THEN shuffled
  ELSE LET j == FloorRandom(rnd[i], i + 1)
       IN ShuffleFrom(Swap(shuffled, i + 1, j + 1), i - 1, rnd)

ShuffleArray(array, rnd) == ShuffleFrom(array, Len(array) - 1, rnd)

(***************************************************************************)
(* Scoring of answerQuestionTool.                                          *)
(***************************************************************************)
\* { easy: 1, medium: 1.5, hard: 2 }[difficulty] || 1, as a rational
DifficultyMultiplier(difficulty) ==
  CASE difficulty = "easy" -> <<1, 1>>
    [] difficulty = "medium" -> <<3, 2>>
    [] difficulty = "hard" -> <<2, 1>>
    [] OTHER -> <<1, 1>>

\* Math.round(num / den) for a non-negative rational: half rounds up
MathRound(num, den) == (2 * num + den) \div (2 * den)

\* the bonus computed from the streak before its increment
StreakBonus_BeforeIncrement(streak) ==
  IF streak - 1 >= 3 THEN ((streak - 1) \div 3) * 2 ELSE 0

\* the streak passed is gameState.streak after its increment
StreakBonus(streak) == IF streak >= 3 THEN (streak \div 3) * 2 ELSE 0

ScoreGained(difficulty, streak) ==
  LET m == DifficultyMultiplier(difficulty)
  IN MathRound(BasePoints * m[1], m[2]) + StreakBonus(streak)

\* the penalty applied without Math.max(0, ...)
Max0_NoClamp(n) == n

\* Math.max(0, n)
Max0(n) == IF n > 0 THEN n ELSE 0

(***************************************************************************)
(* The content provider: the raw records (FetchQuestion) it serves and the *)
(* result lists one fetch returns.                                         *)
(***************************************************************************)
Catalogue ==
  << [difficulty |-> "easy", correct_answer |-> <<"x">>,
      incorrect_answers |-> << <<"X">>, <<"y">>, <<"z">> >>],
     [difficulty |-> "medium", correct_answer |-> <<"y">>,
      incorrect_answers |-> << <<"x">>, <<"z">>, <<"w">> >>],
     [difficulty |-> "hard", correct_answer |-> <<"A">>,
      incorrect_answers |-> << <<"B">>, <<"C">>, <<"D">> >>],
     [difficulty |-> "expert", correct_answer |-> <<"&amp;">>,
      incorrect_answers |-> << <<"&lt;">>, <<"b">>, <<"B">> >>] >>

\* len consecutive records of the catalogue, starting at start and wrapping
Window(start, len) ==
  [i \in 1..len |-> Catalogue[((start + i - 2) % Len(Catalogue)) + 1]]

\* data.results of a fetch that asked for amount records: at most amount
\* from the first record of the catalogue on, or two from the third on
Results(amount) ==
  {Window(1, len) : len \in 0..amount} \cup {Window(3, 2)}

\* the values Math.random() takes
RandomValues == {<<0, 1>>, <<1, 2>>}

\* the values Math.random() returns during one call of shuffleArray, by loop
\* position
RandomStreams == {[i \in 1..3 |-> r] : r \in RandomValues}

\* the streams of the len calls of shuffleArray one startGameTool call makes
GameStreams(len) == {[i \in 1..len |-> rnd] : rnd \in RandomStreams}

\* the answers callers submit
RawAnswers == {<<"b">>, <<" ", "x", " ">>}

\* the questionsCount values callers pass
QuestionCounts == {MaxQuestions}

Players == {"p1", "p2"}

(***************************************************************************)
(* State.                                                                  *)
(***************************************************************************)
VARIABLES
  gameStates,  \* the Map playerId -> GameState
  keyOrder,    \* the keys of gameStates in insertion order
  inflight,    \* startGameTool calls suspended at their fetch: a bag of
               \* <<playerId, questionsCount>>
  reply        \* what the handler that ran last returned or threw

vars == <<gameStates, keyOrder, inflight, reply>>

\* reply before any handler has run, and the default of every field
NoReply ==
  [op |-> "none", playerId |-> "", status |-> "none", correct |-> FALSE,
   scoreGained |-> 0, scorePenalty |-> 0, gameCompleted |-> FALSE,
   remainingOptions |-> << >>, questionsCount |-> 0, totalQuestions |-> 0,
   correctAnswers |-> 0, accuracy |-> 0, leaderboard |-> << >>,
   totalPlayers |-> 0]

InflightTotal ==
  LET RECURSIVE Sum(_)
      Sum(S) == IF S = {} THEN 0
                ELSE LET k == CHOOSE k \in S : TRUE
                     IN inflight[k] + Sum(S \ {k})
  IN Sum(DOMAIN inflight)

Init ==
  /\ gameStates = << >>
  /\ keyOrder = << >>
  /\ inflight = [k \in Players \X QuestionCounts |-> 0]
  /\ reply = NoReply

(***************************************************************************)
(* startGameTool.                                                          *)
(***************************************************************************)
\* the Question built from raw record q, its options shuffled with rnd
MakeQuestion(q, rnd) ==
  [difficulty |-> q.difficulty,
   options |-> ShuffleArray(
     [i \in 1..Len(q.incorrect_answers) |-> DecodeHtml(q.incorrect_answers[i])]
       \o <<DecodeHtml(q.correct_answer)>>, rnd),
   correct |-> DecodeHtml(q.correct_answer),
   answered |-> FALSE,
   userAnswer |-> << >>]

\* the GameState that keeps the hints and skips of the session it replaces
NewGameState_CarryOver(playerId, results, rnds) ==
  [playerId |-> playerId,
   score |-> 0,
   currentQuestionIndex |-> 0,
   questions |-> [i \in 1..Len(results) |-> MakeQuestion(results[i], rnds[i])],
   streak |-> 0,
   hintsUsed |-> IF playerId \in DOMAIN gameStates
                 THEN gameStates[playerId].hintsUsed ELSE 0,
   skipsUsed |-> IF playerId \in DOMAIN gameStates
                 THEN gameStates[playerId].skipsUsed ELSE 0]

\* the GameState startGameTool stores
NewGameState(playerId, results, rnds) ==
  [playerId |-> playerId,
   score |-> 0,
   currentQuestionIndex |-> 0,
   questions |-> [i \in 1..Len(results) |-> MakeQuestion(results[i], rnds[i])],
   streak |-> 0,
   hintsUsed |-> 0,
   skipsUsed |-> 0]

\* the set that writes the value under every key of the Map
MapSet_EveryKey(map, key, value) ==
  [k \in DOMAIN map \cup {key} |-> value]

\* Map.prototype.set
MapSet(map, key, value) ==
  [k \in DOMAIN map \cup {key} |-> IF k = key THEN value ELSE map[k]]

\* the iteration order of the Map after Map.prototype.set: a new key goes
\* last, a key already present keeps its place
MapSetOrder(order, key) ==
  IF \E i \in DOMAIN order : order[i] = key THEN order ELSE Append(order, key)

\* the call that clears the score of the session before its fetch
StartGameCall_EarlyReset(playerId, questionsCount) ==
  /\ InflightTotal < MaxInflight
  /\ inflight' = [inflight EXCEPT ![<<playerId, questionsCount>>] = @ + 1]
  /\ gameStates' = [k \in DOMAIN gameStates |->
                      IF k = playerId THEN [gameStates[k] EXCEPT !.score = 0]
                      ELSE gameStates[k]]
  /\ UNCHANGED <<keyOrder, reply>>

\* the call up to its await fetch(...)
StartGameCall(playerId, questionsCount) ==
  /\ InflightTotal < MaxInflight
  /\ inflight' = [inflight EXCEPT ![<<playerId, questionsCount>>] = @ + 1]
  /\ UNCHANGED <<gameStates, keyOrder, reply>>

StartGameFailure(playerId, questionsCount) ==
  [NoReply EXCEPT !.op = "startGame", !.playerId = playerId, !.status = "fail",
                  !.questionsCount = questionsCount]

\* the fetch returned data.results = results
StartGameResolve(playerId, questionsCount, results, rnds) ==
  /\ inflight[<<playerId, questionsCount>>] > 0
  /\ inflight' = [inflight EXCEPT ![<<playerId, questionsCount>>] = @ - 1]
  /\ IF Len(results) = 0
     THEN /\ reply' = StartGameFailure(playerId, questionsCount)
          /\ UNCHANGED <<gameStates, keyOrder>>
     ELSE /\ gameStates' = MapSet(gameStates, playerId,
                                  NewGameState(playerId, results, rnds))
          /\ keyOrder' = MapSetOrder(keyOrder, playerId)
          /\ reply' = [NoReply EXCEPT !.op = "startGame", !.playerId = playerId,
                                      !.status = "ok",
                                      !.questionsCount = questionsCount,
                                      !.totalQuestions = Len(results)]

\* the failure that drops the session of the player
StartGameReject_DropsSession(playerId, questionsCount) ==
  /\ inflight[<<playerId, questionsCount>>] > 0
  /\ inflight' = [inflight EXCEPT ![<<playerId, questionsCount>>] = @ - 1]
  /\ reply' = StartGameFailure(playerId, questionsCount)
  /\ gameStates' = [k \in DOMAIN gameStates \ {playerId} |-> gameStates[k]]
  /\ keyOrder' = SelectSeq(keyOrder, LAMBDA k : k # playerId)

\* fetch or response.json() threw
StartGameReject(playerId, questionsCount) ==
  /\ inflight[<<playerId, questionsCount>>] > 0
  /\ inflight' = [inflight EXCEPT ![<<playerId, questionsCount>>] = @ - 1]
  /\ reply' = StartGameFailure(playerId, questionsCount)
  /\ UNCHANGED <<gameStates, keyOrder>>

\* the error returned as a result instead of thrown
ThrowReply_AsFailure(op, playerId) ==
  [NoReply EXCEPT !.op = op, !.playerId = playerId, !.status = "fail"]

\* throw new Error(...): the call ends with an exception
ThrowReply(op, playerId) ==
  [NoReply EXCEPT !.op = op, !.playerId = playerId, !.status = "error"]

\* gameState.questions[gameState.currentQuestionIndex] is not undefined
HasCurrentQuestion(gameState) ==
  gameState.currentQuestionIndex + 1 \in DOMAIN gameState.questions

CurrentQuestion(gameState) ==
  gameState.questions[gameState.currentQuestionIndex + 1]

\* gameState.currentQuestionIndex >= gameState.questions.length
GameCompleted(gameState) ==
  gameState.currentQuestionIndex >= Len(gameState.questions)

(***************************************************************************)
(* answerQuestionTool.                                                     *)
(***************************************************************************)
\* the answer uppercased but not trimmed
NormalizedUserAnswer_NoTrim(answer) == ToUpperCase(answer)

\* answer.trim().toUpperCase()
NormalizedUserAnswer(answer) == ToUpperCase(Trim(answer))

\* isCorrect
IsCorrect(currentQuestion, answer) ==
  LET normalizedUserAnswer == NormalizedUserAnswer(answer)
      normalizedCorrectAnswer == ToUpperCase(currentQuestion.correct)
      optionIndex == CharCode[normalizedUserAnswer[1]] - 65
  IN IF IsLetterAD(normalizedUserAnswer)
     THEN /\ optionIndex + 1 \in DOMAIN currentQuestion.options
          /\ currentQuestion.options[optionIndex + 1] = currentQuestion.correct
     ELSE normalizedUserAnswer = normalizedCorrectAnswer

\* the handler that stays at the question it has judged
AnswerUpdate_NoAdvance(gameState, answer) ==
  LET at == gameState.currentQuestionIndex + 1
      isCorrect == IsCorrect(gameState.questions[at], answer)
      streak == IF isCorrect THEN gameState.streak + 1 ELSE 0
      scoreGained ==
        IF isCorrect THEN ScoreGained(gameState.questions[at].difficulty, streak)
        ELSE 0
  IN [gameState EXCEPT
        !.questions[at].answered = TRUE,
        !.questions[at].userAnswer = <<answer>>,
        !.streak = streak,
        !.score = @ + scoreGained]

\* the handler that records the normalized answer in place of the raw one
AnswerUpdate_RecordsNormalized(gameState, answer) ==
  LET at == gameState.currentQuestionIndex + 1
      isCorrect == IsCorrect(gameState.questions[at], answer)
      streak == IF isCorrect THEN gameState.streak + 1 ELSE 0
      scoreGained ==
        IF isCorrect THEN ScoreGained(gameState.questions[at].difficulty, streak)
        ELSE 0
  IN [gameState EXCEPT
        !.questions[at].answered = TRUE,
        !.questions[at].userAnswer = <<NormalizedUserAnswer(answer)>>,
        !.streak = streak,
        !.score = @ + scoreGained,
        !.currentQuestionIndex = @ + 1]

\* the GameState the handler leaves, given one with a current question
AnswerUpdate(gameState, answer) ==
  LET at == gameState.currentQuestionIndex + 1
      isCorrect == IsCorrect(gameState.questions[at], answer)
      streak == IF isCorrect THEN gameState.streak + 1 ELSE 0
      scoreGained ==
        IF isCorrect THEN ScoreGained(gameState.questions[at].difficulty, streak)
        ELSE 0
  IN [gameState EXCEPT
        !.questions[at].answered = TRUE,
        !.questions[at].userAnswer = <<answer>>,
        !.streak = streak,
        !.score = @ + scoreGained,
        !.currentQuestionIndex = @ + 1]

AnswerQuestion(playerId, answer) ==
  /\ UNCHANGED <<inflight, keyOrder>>
  /\ IF playerId \notin DOMAIN gameStates
     THEN /\ reply' = ThrowReply("answerQuestion", playerId)
          /\ UNCHANGED gameStates
     ELSE LET gameState == gameStates[playerId]
              after == AnswerUpdate(gameState, answer)
          IN IF ~HasCurrentQuestion(gameState)
             THEN /\ reply' = ThrowReply("answerQuestion", playerId)
                  /\ UNCHANGED gameStates
             ELSE /\ gameStates' = MapSet(gameStates, playerId, after)
                  /\ reply' =
                       [NoReply EXCEPT
                          !.op = "answerQuestion", !.playerId = playerId,
                          !.status = "ok",
                          !.correct = IsCorrect(CurrentQuestion(gameState), answer),
                          !.scoreGained = after.score - gameState.score,
                          !.gameCompleted = GameCompleted(after)]

(***************************************************************************)
(* getHintTool.                                                            *)
(***************************************************************************)
\* array.filter(pred), pred given as the set of values it accepts
RECURSIVE Filter(_, _)
Filter(array, keep) ==
  IF array = << >> THEN << >>
  ELSE (IF Head(array) \in keep THEN <<Head(array)>> ELSE << >>)
         \o Filter(Tail(array), keep)

\* remainingOptions of a hint; r is the Math.random() value that picks the
\* wrong answer, rnd the values used by shuffleArray
RemainingOptions(currentQuestion, r, rnd) ==
  LET wrongAnswers ==
        Filter(currentQuestion.options,
               {opt \in {currentQuestion.options[i] :
                           i \in DOMAIN currentQuestion.options} :
                  opt # currentQuestion.correct})
      randomWrongAnswer ==
        IF Len(wrongAnswers) > 0
        THEN wrongAnswers[FloorRandom(r, Len(wrongAnswers)) + 1]
        ELSE currentQuestion.correct
  IN ShuffleArray(<<currentQuestion.correct, randomWrongAnswer>>, rnd)

\* the limit tested with > in place of >=
HintsExhausted_OffByOne(gameState) == gameState.hintsUsed > MaxHints

\* gameState.hintsUsed >= 3
HintsExhausted(gameState) == gameState.hintsUsed >= MaxHints

\* the hint that ends the streak
HintUpdate_ResetsStreak(gameState) ==
  [gameState EXCEPT !.score = Max0(@ - HintPenalty), !.hintsUsed = @ + 1,
                    !.streak = 0]

HintUpdate(gameState) ==
  [gameState EXCEPT !.score = Max0(@ - HintPenalty), !.hintsUsed = @ + 1]

GetHint(playerId, r, rnd) ==
  /\ UNCHANGED <<inflight, keyOrder>>
  /\ IF playerId \notin DOMAIN gameStates
     THEN /\ reply' = ThrowReply("getHint", playerId)
          /\ UNCHANGED gameStates
     ELSE LET gameState == gameStates[playerId]
          IN IF ~HasCurrentQuestion(gameState)
             THEN /\ reply' = ThrowReply("getHint", playerId)
                  /\ UNCHANGED gameStates
             ELSE IF HintsExhausted(gameState)
             THEN /\ reply' =
                       [NoReply EXCEPT
                          !.op = "getHint", !.playerId = playerId,
                          !.status = "fail",
                          !.remainingOptions = CurrentQuestion(gameState).options]
                  /\ UNCHANGED gameStates
             ELSE /\ gameStates' = MapSet(gameStates, playerId, HintUpdate(gameState))
                  /\ reply' =
                       [NoReply EXCEPT
                          !.op = "getHint", !.playerId = playerId,
                          !.status = "ok",
                          !.remainingOptions =
                             RemainingOptions(CurrentQuestion(gameState), r, rnd),
                          !.scorePenalty = HintPenalty]

(***************************************************************************)
(* skipQuestionTool.                                                       *)
(***************************************************************************)
\* the limit tested with > in place of >=
SkipsExhausted_OffByOne(gameState) == gameState.skipsUsed > MaxSkips

\* the limit never tested
SkipsExhausted_Never(gameState) == FALSE

\* gameState.skipsUsed >= 2
SkipsExhausted(gameState) == gameState.skipsUsed >= MaxSkips

\* a granted skip that keeps the streak
\* the skip that stays at the question
SkipUpdate_NoAdvance(gameState) ==
  [gameState EXCEPT !.score = Max0(@ - SkipPenalty),
                    !.skipsUsed = @ + 1,
                    !.streak = 0]

\* the skip that marks the question it passes as answered
SkipUpdate_MarksAnswered(gameState) ==
  [gameState EXCEPT
     !.score = Max0(@ - SkipPenalty),
     !.skipsUsed = @ + 1,
     !.streak = 0,
     !.currentQuestionIndex = @ + 1,
     !.questions = [i \in DOMAIN @ |->
                      IF i = gameState.currentQuestionIndex + 1
                      THEN [@[i] EXCEPT !.answered = TRUE] ELSE @[i]]]

SkipUpdate_KeepStreak(gameState) ==
  [gameState EXCEPT !.score = Max0(@ - SkipPenalty),
                    !.skipsUsed = @ + 1,
                    !.currentQuestionIndex = @ + 1]

\* the GameState a granted skip leaves
SkipUpdate(gameState) ==
  [gameState EXCEPT !.score = Max0(@ - SkipPenalty),
                    !.skipsUsed = @ + 1,
                    !.streak = 0,
                    !.currentQuestionIndex = @ + 1]

SkipQuestion(playerId) ==
  /\ UNCHANGED <<inflight, keyOrder>>
  /\ IF playerId \notin DOMAIN gameStates
     THEN /\ reply' = ThrowReply("skipQuestion", playerId)
          /\ UNCHANGED gameStates
     ELSE LET gameState == gameStates[playerId]
              after == SkipUpdate(gameState)
          IN IF SkipsExhausted(gameState)
             THEN /\ reply' = [NoReply EXCEPT !.op = "skipQuestion",
                                              !.playerId = playerId,
                                              !.status = "fail"]
                  /\ UNCHANGED gameStates
             ELSE /\ gameStates' = MapSet(gameStates, playerId, after)
                  /\ reply' = [NoReply EXCEPT
                                 !.op = "skipQuestion", !.playerId = playerId,
                                 !.status = "ok",
                                 !.gameCompleted = GameCompleted(after),
                                 !.scorePenalty = SkipPenalty]

(***************************************************************************)
(* getLeaderboardTool.                                                     *)
(***************************************************************************)
\* the entry of one [playerId, state] pair
LeaderboardEntry(playerId, state) ==
  [playerId |-> playerId,
   score |-> state.score,
   streak |-> state.streak,
   questionsAnswered |->
     Cardinality({i \in DOMAIN state.questions : state.questions[i].answered})]

\* entry e put into a list sorted by (a, b) => b.score - a.score, behind the
\* entries that do not sort after it: Array.prototype.sort is stable
RECURSIVE InsertByScore(_, _)
InsertByScore(sorted, e) ==
  IF sorted = << >> THEN <<e>>
  ELSE IF Head(sorted).score >= e.score
       THEN <<Head(sorted)>> \o InsertByScore(Tail(sorted), e)
       ELSE <<e>> \o sorted

\* entries.sort((a, b) => b.score - a.score)
RECURSIVE SortByScore(_)
SortByScore(entries) ==
  IF entries = << >> THEN << >>
  ELSE InsertByScore(SortByScore(SubSeq(entries, 1, Len(entries) - 1)),
                     entries[Len(entries)])

\* array.slice(0, n)
Slice(array, n) == SubSeq(array, 1, IF Len(array) < n THEN Len(array) ELSE n)

\* the leaderboard cut to its length before it is sorted
Leaderboard_SliceFirst(map, order) ==
  SortByScore(Slice([i \in DOMAIN order |-> LeaderboardEntry(order[i], map[order[i]])],
                    TopN))

\* the leaderboard of the Map map iterated in the order order
Leaderboard(map, order) ==
  Slice(SortByScore([i \in DOMAIN order |-> LeaderboardEntry(order[i], map[order[i]])]),
        TopN)

GetLeaderboard ==
  /\ reply' = [NoReply EXCEPT !.op = "getLeaderboard", !.status = "ok",
                              !.leaderboard = Leaderboard(gameStates, keyOrder),
                              !.totalPlayers = Cardinality(DOMAIN gameStates)]
  /\ UNCHANGED <<gameStates, keyOrder, inflight>>

(***************************************************************************)
(* getGameStatsTool.                                                       *)
(***************************************************************************)
\* the filter that counts the answered question q as correct
CountsAsCorrect(gameState, q) ==
  LET ua == ToUpperCase(q.userAnswer[1])
      idx == CharCode[ua[1]] - 65
  IN IF q.userAnswer = << >> \/ q.userAnswer[1] = << >> THEN FALSE
     ELSE IF Len(ua) = 1 /\ IsLetterAD(ua)
     THEN /\ idx + 1 \in DOMAIN gameState.questions[1].options
          /\ gameState.questions[1].options[idx + 1] = q.correct
     ELSE ua = ToUpperCase(q.correct)

\* answeredQuestions
AnsweredQuestions(gameState) ==
  {i \in DOMAIN gameState.questions : gameState.questions[i].answered}

\* correctAnswers
CorrectAnswers(gameState) ==
  Cardinality({i \in AnsweredQuestions(gameState) :
                 CountsAsCorrect(gameState, gameState.questions[i])})

\* Math.round(accuracy)
Accuracy(gameState) ==
  IF Cardinality(AnsweredQuestions(gameState)) > 0
  THEN MathRound(CorrectAnswers(gameState) * 100,
                 Cardinality(AnsweredQuestions(gameState)))
  ELSE 0

GetGameStats(playerId) ==
  /\ UNCHANGED <<gameStates, keyOrder, inflight>>
  /\ IF playerId \notin DOMAIN gameStates
     THEN reply' = ThrowReply("getGameStats", playerId)
     ELSE reply' = [NoReply EXCEPT
                      !.op = "getGameStats", !.playerId = playerId,
                      !.status = "ok",
                      !.totalQuestions = Len(gameStates[playerId].questions),
                      !.correctAnswers = CorrectAnswers(gameStates[playerId]),
                      !.accuracy = Accuracy(gameStates[playerId])]

(***************************************************************************)
(* The game of one player.                                                 *)
(***************************************************************************)
\* the players that issue calls in Spec
Callers == {"p1"}

Next ==
  \/ \E playerId \in Callers, questionsCount \in QuestionCounts :
       StartGameCall(playerId, questionsCount)
  \/ \E playerId \in Callers, questionsCount \in QuestionCounts :
       StartGameReject(playerId, questionsCount)
  \/ \E playerId \in Callers, questionsCount \in QuestionCounts :
       \E results \in Results(questionsCount) :
         \E rnds \in GameStreams(Len(results)) :
           StartGameResolve(playerId, questionsCount, results, rnds)
  \/ \E playerId \in Callers, answer \in RawAnswers :
       AnswerQuestion(playerId, answer)
  \/ \E playerId \in Callers, r \in RandomValues, rnd \in RandomStreams :
       GetHint(playerId, r, rnd)
  \/ \E playerId \in Callers : SkipQuestion(playerId)
  \/ GetLeaderboard
  \/ \E playerId \in Callers : GetGameStats(playerId)

Spec == Init /\ [][Next]_vars

(***************************************************************************)
(* The games of two players: every tool is called for either player, the   *)
(* provider answers with no question or with one.                          *)
(***************************************************************************)
PlayersResults == {Window(1, len) : len \in 0..1}
PlayersStreams(len) == [i \in 1..len |-> [j \in 1..3 |-> <<1, 2>>]]

NextPlayers ==
  \/ \E playerId \in Players, questionsCount \in QuestionCounts :
       StartGameCall(playerId, questionsCount)
  \/ \E playerId \in Players, questionsCount \in QuestionCounts :
       StartGameReject(playerId, questionsCount)
  \/ \E playerId \in Players, questionsCount \in QuestionCounts :
       \E results \in PlayersResults :
         StartGameResolve(playerId, questionsCount, results,
                          PlayersStreams(Len(results)))
  \/ \E playerId \in Players, answer \in RawAnswers :
       AnswerQuestion(playerId, answer)
  \/ \E playerId \in Players, r \in RandomValues, rnd \in RandomStreams :
       GetHint(playerId, r, rnd)
  \/ \E playerId \in Players : SkipQuestion(playerId)
  \/ GetLeaderboard
  \/ \E playerId \in Players : GetGameStats(playerId)

SpecPlayers == Init /\ [][NextPlayers]_vars

(***************************************************************************)
(* The leaderboard game: more players than the leaderboard has places.     *)
(* The players join one after the other, each with a game of one question  *)
(* that it answers before the next player joins.                           *)
(***************************************************************************)
BoardNames ==
  <<"p1", "p2", "p3", "p4", "p5", "p6", "p7", "p8", "p9", "p10", "p11",
    "p12", "p13">>

BoardPlayers == {BoardNames[i] : i \in 1..BoardSize}

\* the one result list and the one shuffle of the leaderboard game
BoardResults == Window(1, 1)
BoardStreams == [i \in 1..1 |-> [j \in 1..3 |-> <<0, 1>>]]

InitBoard ==
  /\ gameStates = << >>
  /\ keyOrder = << >>
  /\ inflight = [k \in BoardPlayers \X QuestionCounts |-> 0]
  /\ reply = NoReply

\* every player that joined has answered its question
AllDone ==
  \A i \in DOMAIN keyOrder : ~HasCurrentQuestion(gameStates[keyOrder[i]])

NextBoard ==
  \/ \E questionsCount \in QuestionCounts :
       /\ Len(keyOrder) < BoardSize
       /\ InflightTotal = 0
       /\ AllDone
       /\ StartGameCall(BoardNames[Len(keyOrder) + 1], questionsCount)
  \/ \E playerId \in BoardPlayers, questionsCount \in QuestionCounts :
       StartGameResolve(playerId, questionsCount, BoardResults, BoardStreams)
  \/ \E playerId \in DOMAIN gameStates, answer \in RawAnswers :
       /\ HasCurrentQuestion(gameStates[playerId])
       /\ AnswerQuestion(playerId, answer)
  \/ GetLeaderboard

SpecBoard == InitBoard /\ [][NextBoard]_vars

(***************************************************************************)
(* The game on records of any shape: startGameTool reads correct_answer    *)
(* and incorrect_answers of whatever data.results holds, and a             *)
(* FetchQuestion carries a list of incorrect answers of any length.        *)
(***************************************************************************)
\* records with one incorrect answer and with none
ShortRecords ==
  << [difficulty |-> "easy", correct_answer |-> <<"x">>,
      incorrect_answers |-> << <<"y">> >>],
     [difficulty |-> "easy", correct_answer |-> <<"x">>,
      incorrect_answers |-> << >>] >>

AnyRecords ==
  {Catalogue[1], Catalogue[4], ShortRecords[1], ShortRecords[2]}

\* data.results: one record, or the first of the catalogue and one more
RecordsResults ==
  {<<q>> : q \in AnyRecords} \cup {<<Catalogue[1], q>> : q \in AnyRecords}

NextRecords ==
  \/ \E playerId \in Callers, questionsCount \in QuestionCounts :
       StartGameCall(playerId, questionsCount)
  \/ \E playerId \in Callers, questionsCount \in QuestionCounts :
       \E results \in RecordsResults :
         \E rnds \in GameStreams(Len(results)) :
           StartGameResolve(playerId, questionsCount, results, rnds)
  \/ \E playerId \in Callers, answer \in RawAnswers :
       AnswerQuestion(playerId, answer)
  \/ \E playerId \in Callers, r \in RandomValues, rnd \in RandomStreams :
       GetHint(playerId, r, rnd)
  \/ \E playerId \in Callers : SkipQuestion(playerId)

SpecRecords == Init /\ [][NextRecords]_vars

(***************************************************************************)
(* The one game of a player that keeps answering: the player starts no     *)
(* game while it has a session or a call in flight, and an answer that can *)
(* be given is given in the end.                                           *)
(***************************************************************************)
NextLive ==
  \/ \E playerId \in Callers, questionsCount \in QuestionCounts :
       /\ playerId \notin DOMAIN gameStates
       /\ InflightTotal = 0
       /\ StartGameCall(playerId, questionsCount)
  \/ \E playerId \in Callers, questionsCount \in QuestionCounts :
       \E results \in Results(questionsCount) :
         \E rnds \in GameStreams(Len(results)) :
           StartGameResolve(playerId, questionsCount, results, rnds)
  \/ \E playerId \in Callers, answer \in RawAnswers :
       AnswerQuestion(playerId, answer)
  \/ \E playerId \in Callers, r \in RandomValues, rnd \in RandomStreams :
       GetHint(playerId, r, rnd)
  \/ \E playerId \in Callers : SkipQuestion(playerId)

\* the player keeps answering
KeepsAnswering ==
  \A playerId \in Callers :
    WF_vars(\E answer \in RawAnswers : AnswerQuestion(playerId, answer))

SpecLive == Init /\ [][NextLive]_vars /\ KeepsAnswering

(***************************************************************************)
(* Vocabulary of the properties.                                           *)
(***************************************************************************)
\* the step is a call of the tool for playerId
AnswerStep(playerId) == \E answer \in RawAnswers : AnswerQuestion(playerId, answer)
HintStep(playerId) ==
  \E r \in RandomValues, rnd \in RandomStreams : GetHint(playerId, r, rnd)
SkipStep(playerId) == SkipQuestion(playerId)
StatsStep(playerId) == GetGameStats(playerId)
\* a startGameTool call of playerId resumes after its fetch: only
\* StartGameResolve and StartGameReject take a call out of inflight
StartStep(playerId) ==
  \E questionsCount \in QuestionCounts :
    inflight'[<<playerId, questionsCount>>] < inflight[<<playerId, questionsCount>>]

\* the session is Completed in the sense of the specification
Completed(gameState) == gameState.currentQuestionIndex = Len(gameState.questions)

\* the letter of the option at 1-based position i
LetterOf == <<"A", "B", "C", "D">>

\* what a caller observes of the outcome of an answer
Outcome(gameState) ==
  <<gameState.score, gameState.streak, gameState.currentQuestionIndex>>

\* the number of consecutive positions, ending at 1-based position i, that
\* hold a question answered correctly
RECURSIVE CorrectRun(_, _)
CorrectRun(gameState, i) ==
  IF /\ i \in DOMAIN gameState.questions
     /\ gameState.questions[i].answered
     /\ IsCorrect(gameState.questions[i], gameState.questions[i].userAnswer[1])
  THEN 1 + CorrectRun(gameState, i - 1)
  ELSE 0

(***************************************************************************)
(* C1: in every reachable state every stored session has                   *)
(* 0 <= currentQuestionIndex <= questions.length.                          *)
(***************************************************************************)
C1_IndexInRange ==
  \A p \in DOMAIN gameStates :
    /\ 0 <= gameStates[p].currentQuestionIndex
    /\ gameStates[p].currentQuestionIndex <= Len(gameStates[p].questions)

(***************************************************************************)
(* C2: once a session is Completed, every answer, hint and skip call for   *)
(* its player fails (throws or returns success=false) and leaves the       *)
(* session unchanged.                                                      *)
(***************************************************************************)
C2_CompletedIsFrozen ==
  [][\A p \in DOMAIN gameStates :
       (/\ Completed(gameStates[p])
        /\ (AnswerStep(p) \/ HintStep(p) \/ SkipStep(p)))
       => /\ reply'.status \in {"error", "fail"}
          /\ gameStates'[p] = gameStates[p]]_vars

(***************************************************************************)
(* C3: in every reachable state every stored session has score >= 0.       *)
(***************************************************************************)
C3_ScoreNonNegative ==
  \A p \in DOMAIN gameStates : gameStates[p].score >= 0

\* a hint and a skip have both been granted and the score stands at zero
C3_Witness ==
  \E p \in DOMAIN gameStates :
    /\ gameStates[p].score = 0
    /\ gameStates[p].hintsUsed >= 1
    /\ gameStates[p].skipsUsed >= 1
    /\ reply.op \in {"getHint", "skipQuestion"} /\ reply.status = "ok"

(***************************************************************************)
(* C4: in every reachable state every stored session has hintsUsed <= 3    *)
(* and skipsUsed <= 2.                                                     *)
(***************************************************************************)
C4_ResourceLimits ==
  \A p \in DOMAIN gameStates :
    /\ gameStates[p].hintsUsed <= 3
    /\ gameStates[p].skipsUsed <= 2

\* both resources are used up and a further request has just been refused
C4_Witness ==
  \E p \in DOMAIN gameStates :
    /\ gameStates[p].hintsUsed = 3
    /\ gameStates[p].skipsUsed = 2
    /\ reply.op \in {"getHint", "skipQuestion"} /\ reply.status = "fail"

(***************************************************************************)
(* C5: an incorrect answer and a granted skip set streak to 0, a correct   *)
(* answer adds exactly 1 to it, and in every state streak is the number of *)
(* correct answers since the last incorrect answer, skip or game start.    *)
(***************************************************************************)
C5_Streak ==
  [][\A p \in DOMAIN gameStates' :
       /\ gameStates'[p].streak =
            CorrectRun(gameStates'[p], gameStates'[p].currentQuestionIndex)
       /\ (p \in DOMAIN gameStates /\ AnswerStep(p) /\ reply'.status = "ok")
            => gameStates'[p].streak =
                 IF reply'.correct THEN gameStates[p].streak + 1 ELSE 0
       /\ (p \in DOMAIN gameStates /\ SkipStep(p) /\ reply'.status = "ok")
            => gameStates'[p].streak = 0]_vars

\* a skip has just reset a streak that a correct answer had started
C5_Witness ==
  \E p \in DOMAIN gameStates :
    LET gameState == gameStates[p]
        before == gameState.currentQuestionIndex - 1
    IN /\ reply.op = "skipQuestion" /\ reply.status = "ok"
       /\ gameState.streak = 0
       /\ CorrectRun(gameState, before) >= 1

(***************************************************************************)
(* C6: within one session currentQuestionIndex never decreases, every      *)
(* successful answer and every granted skip adds exactly 1 to it, and the  *)
(* game is reported completed exactly when the index reaches               *)
(* questions.length.                                                       *)
(***************************************************************************)
C6_IndexAdvance ==
  [][\A p \in DOMAIN gameStates :
       /\ (AnswerStep(p) \/ HintStep(p) \/ SkipStep(p))
            => gameStates'[p].currentQuestionIndex
                 >= gameStates[p].currentQuestionIndex
       /\ ((AnswerStep(p) \/ SkipStep(p)) /\ reply'.status = "ok")
            => /\ gameStates'[p].currentQuestionIndex
                    = gameStates[p].currentQuestionIndex + 1
               /\ reply'.gameCompleted <=> Completed(gameStates'[p])]_vars

(***************************************************************************)
(* C7: a correct answer adds exactly round(10 * m) + bonus to score, with  *)
(* m = 1, 1.5, 2 for easy, medium, hard and bonus = floor(s / 3) * 2 when  *)
(* the streak s after the increment is at least 3; an incorrect answer     *)
(* leaves score unchanged.                                                 *)
(***************************************************************************)
C7_Points ==
  [][\A p \in DOMAIN gameStates :
       (AnswerStep(p) /\ reply'.status = "ok")
       => LET difficulty == CurrentQuestion(gameStates[p]).difficulty
              s == gameStates'[p].streak
              gained == gameStates'[p].score - gameStates[p].score
              base == CASE difficulty = "easy" -> 10
                        [] difficulty = "medium" -> 15
                        [] difficulty = "hard" -> 20
                        [] OTHER -> gained
          IN /\ ~reply'.correct => gained = 0
             /\ (reply'.correct /\ difficulty \in {"easy", "medium", "hard"})
                  => gained = base + (IF s >= 3 THEN (s \div 3) * 2 ELSE 0)]_vars

\* the third correct answer in a row, to a hard question, has earned 22
C7_Witness ==
  \E p \in DOMAIN gameStates :
    LET gameState == gameStates[p]
    IN /\ reply.op = "answerQuestion" /\ reply.status = "ok" /\ reply.correct
       /\ gameState.streak = 3
       /\ gameState.questions[gameState.currentQuestionIndex].difficulty = "hard"
       /\ reply.scoreGained = 22

(***************************************************************************)
(* C8: for the current question of every session and every option         *)
(* position i, answering with the letter of i gives the same verdict,      *)
(* score and streak as answering with the text of options[i].              *)
(***************************************************************************)
C8_LetterEqualsText ==
  \A p \in DOMAIN gameStates :
    HasCurrentQuestion(gameStates[p])
    => \A i \in DOMAIN CurrentQuestion(gameStates[p]).options :
         LET currentQuestion == CurrentQuestion(gameStates[p])
             letter == <<LetterOf[i]>>
             text == currentQuestion.options[i]
         IN /\ IsCorrect(currentQuestion, letter) = IsCorrect(currentQuestion, text)
            /\ Outcome(AnswerUpdate(gameStates[p], letter))
                 = Outcome(AnswerUpdate(gameStates[p], text))

(***************************************************************************)
(* C9: for every raw answer, submitting it gives the same verdict, score,  *)
(* streak and currentQuestionIndex as submitting its trimmed, uppercased   *)
(* form.                                                                   *)
(***************************************************************************)
\* raw answers in lower case or with surrounding whitespace, and others
AnswerForms ==
  RawAnswers \cup
  {<<" ", "b">>, <<"b", " ">>, <<"B">>, <<"a">>, <<" ", "x">>, <<"x">>, <<"X">>,
   <<" ", "y", " ">>, <<"Y">>, <<" ", "&">>, <<" ">>, << >>, <<"x", " ", "y">>}

C9_CaseAndWhitespace ==
  \A p \in DOMAIN gameStates :
    HasCurrentQuestion(gameStates[p])
    => \A raw \in AnswerForms :
         LET currentQuestion == CurrentQuestion(gameStates[p])
             canonical == ToUpperCase(Trim(raw))
         IN /\ IsCorrect(currentQuestion, raw) = IsCorrect(currentQuestion, canonical)
            /\ Outcome(AnswerUpdate(gameStates[p], raw))
                 = Outcome(AnswerUpdate(gameStates[p], canonical))

\* an answer submitted with surrounding whitespace has been judged correct,
\* and another question is waiting
C9_Witness ==
  \E p \in DOMAIN gameStates :
    LET gameState == gameStates[p]
        raw == gameState.questions[gameState.currentQuestionIndex].userAnswer[1]
    IN /\ reply.op = "answerQuestion" /\ reply.status = "ok" /\ reply.correct
       /\ HasCurrentQuestion(gameState)
       /\ raw # ToUpperCase(Trim(raw))
       /\ Len(raw) > Len(Trim(raw))

(***************************************************************************)
(* C10: a hint requested with hintsUsed >= 3 returns success=false and     *)
(* changes nothing in the session.                                         *)
(***************************************************************************)
\* as claimed: for every session with hintsUsed >= 3
C10_HintRefusedAlways ==
  [][\A p \in DOMAIN gameStates :
       (gameStates[p].hintsUsed >= 3 /\ HintStep(p))
       => /\ reply'.status = "fail"
          /\ gameStates'[p] = gameStates[p]]_vars

\* as amended: for every session that has a current question and
\* hintsUsed >= 3 the request returns success=false; for a session without a
\* current question it throws; either way the session is unchanged and
\* hintsUsed stays 3.  Every granted hint adds 1 to hintsUsed and deducts 2
\* from score, clamped at 0, so four requests in a row leave three deductions
C10_HintRefused ==
  [][\A p \in DOMAIN gameStates :
       /\ (gameStates[p].hintsUsed >= 3 /\ HintStep(p))
            => /\ reply'.status =
                    IF HasCurrentQuestion(gameStates[p]) THEN "fail" ELSE "error"
               /\ gameStates'[p] = gameStates[p]
               /\ gameStates'[p].hintsUsed = 3
       /\ (HintStep(p) /\ reply'.status = "ok")
            => /\ gameStates[p].hintsUsed < 3
               /\ gameStates'[p].hintsUsed = gameStates[p].hintsUsed + 1
               /\ gameStates'[p].score =
                    IF gameStates[p].score >= 2 THEN gameStates[p].score - 2 ELSE 0]_vars

\* after a correct answer worth 10, three hints on the second question have
\* left 4 and a fourth has just been refused
C10_Witness ==
  \E p \in DOMAIN gameStates :
    /\ reply.op = "getHint" /\ reply.status = "fail"
    /\ gameStates[p].hintsUsed = 3
    /\ gameStates[p].skipsUsed = 0
    /\ gameStates[p].currentQuestionIndex = 1
    /\ gameStates[p].questions[1].difficulty = "easy"
    /\ gameStates[p].score = 4

(***************************************************************************)
(* C11: a skip requested with skipsUsed >= 2 returns success=false and     *)
(* changes nothing in the session.                                         *)
(***************************************************************************)
C11_SkipRefused ==
  [][\A p \in DOMAIN gameStates :
       (gameStates[p].skipsUsed >= 2 /\ SkipStep(p))
       => /\ reply'.status = "fail"
          /\ gameStates'[p] = gameStates[p]]_vars

\* a third skip has just been refused to a session that holds points and a
\* streak
C11_Witness ==
  \E p \in DOMAIN gameStates :
    /\ reply.op = "skipQuestion" /\ reply.status = "fail" /\ reply.playerId = p
    /\ gameStates[p].skipsUsed = 2
    /\ gameStates[p].streak >= 1
    /\ gameStates[p].score >= 10

(***************************************************************************)
(* C12: correctAnswers of getGameStatsTool is the number of questions of   *)
(* the session whose answer was judged correct when it was submitted.      *)
(***************************************************************************)
\* the questions whose recorded answer answerQuestionTool judged correct
JudgedCorrect(gameState) ==
  {i \in DOMAIN gameState.questions :
     /\ gameState.questions[i].answered
     /\ IsCorrect(gameState.questions[i], gameState.questions[i].userAnswer[1])}

C12_StatsCountCorrect ==
  (reply.op = "getGameStats" /\ reply.status = "ok")
  => reply.correctAnswers = Cardinality(JudgedCorrect(gameStates[reply.playerId]))

(***************************************************************************)
(* C13: the leaderboard is in non-increasing order of score, has at most   *)
(* 10 entries (all players when there are fewer), each for a distinct      *)
(* stored player; totalPlayers is the number of stored sessions; no player *)
(* left out has a higher score than a player listed.                       *)
(***************************************************************************)
C13_Leaderboard ==
  reply.op = "getLeaderboard"
  => LET lb == reply.leaderboard
         listed == {lb[i].playerId : i \in DOMAIN lb}
         stored == Cardinality(DOMAIN gameStates)
     IN /\ Len(lb) = IF stored < 10 THEN stored ELSE 10
        /\ \A i, j \in DOMAIN lb : i < j => lb[i].score >= lb[j].score
        /\ \A i, j \in DOMAIN lb : i # j => lb[i].playerId # lb[j].playerId
        /\ \A i \in DOMAIN lb :
             /\ lb[i].playerId \in DOMAIN gameStates
             /\ lb[i].score = gameStates[lb[i].playerId].score
        /\ reply.totalPlayers = stored
        /\ \A p \in DOMAIN gameStates \ listed :
             \A i \in DOMAIN lb : gameStates[p].score <= lb[i].score

\* eleven players are stored, ten are listed, and the first player to join
\* is left out for a score below every listed one
C13_Witness ==
  /\ reply.op = "getLeaderboard"
  /\ reply.totalPlayers = 11
  /\ Len(reply.leaderboard) = 10
  /\ \A i \in DOMAIN reply.leaderboard : reply.leaderboard[i].playerId # "p1"
  /\ reply.leaderboard[10].score > gameStates["p1"].score

(***************************************************************************)
(* C14: answerQuestion, getHint, skipQuestion and getGameStats called for  *)
(* a player without a session end with an error, and the store is as it    *)
(* was before the call.                                                    *)
(***************************************************************************)
C14_NoSession ==
  [][\A p \in Players :
       (/\ p \notin DOMAIN gameStates
        /\ AnswerStep(p) \/ HintStep(p) \/ SkipStep(p) \/ StatsStep(p))
       => /\ reply'.status = "error"
          /\ reply'.playerId = p
          /\ gameStates' = gameStates
          /\ keyOrder' = keyOrder]_vars

\* a call for p2, which has no session, ended with an error while p1 is
\* in a game
C14_Witness ==
  /\ reply.status = "error"
  /\ reply.op \in {"answerQuestion", "getHint", "skipQuestion", "getGameStats"}
  /\ reply.playerId = "p2"
  /\ "p2" \notin DOMAIN gameStates
  /\ "p1" \in DOMAIN gameStates
  /\ gameStates["p1"].score > 0

(***************************************************************************)
(* C15: after a startGame call that succeeds the store holds one session   *)
(* for the player, and it is fresh: score, currentQuestionIndex, streak,   *)
(* hintsUsed and skipsUsed are 0 and no question is answered, whatever the *)
(* session of the player was before.                                       *)
(***************************************************************************)
Fresh(gameState) ==
  /\ gameState.score = 0
  /\ gameState.currentQuestionIndex = 0
  /\ gameState.streak = 0
  /\ gameState.hintsUsed = 0
  /\ gameState.skipsUsed = 0
  /\ \A i \in DOMAIN gameState.questions :
       /\ ~gameState.questions[i].answered
       /\ gameState.questions[i].userAnswer = << >>

C15_StartIsFresh ==
  [][\A p \in Players :
       (StartStep(p) /\ reply'.status = "ok")
       => /\ p \in DOMAIN gameStates'
          /\ gameStates'[p].playerId = p
          /\ Fresh(gameStates'[p])
          /\ Cardinality({i \in DOMAIN keyOrder' : keyOrder'[i] = p}) = 1]_vars

\* p1 started a game before p2 did and has started another one since, after
\* p2 used a hint and a skip: the session of p1 is fresh and still the first
\* of the store
C15_Witness ==
  /\ reply.op = "startGame" /\ reply.status = "ok" /\ reply.playerId = "p1"
  /\ keyOrder = <<"p1", "p2">>
  /\ Fresh(gameStates["p1"])
  /\ gameStates["p2"].hintsUsed > 0
  /\ gameStates["p2"].skipsUsed > 0

(***************************************************************************)
(* C16: when the loading of the questions fails in startGame, by an error  *)
(* of the fetch or by an empty result list, the call reports a failure and *)
(* the store is as it was before: a session the player had is still there, *)
(* unchanged.                                                              *)
(***************************************************************************)
C16_FailedStartKeepsStore ==
  [][\A p \in Players :
       (StartStep(p) /\ reply'.status # "ok")
       => /\ reply'.op = "startGame"
          /\ reply'.status = "fail"
          /\ gameStates' = gameStates
          /\ keyOrder' = keyOrder]_vars

\* a startGame call of p1 failed and p1 still has the game in which it has
\* answered a question correctly
C16_Witness ==
  /\ reply.op = "startGame" /\ reply.status = "fail" /\ reply.playerId = "p1"
  /\ "p1" \in DOMAIN gameStates
  /\ gameStates["p1"].currentQuestionIndex > 0
  /\ gameStates["p1"].score > 0

(***************************************************************************)
(* C17: startGame never stores a session of fewer questions than the       *)
(* questionsCount it was called with.                                      *)
(***************************************************************************)
C17_AllQuestionsLoaded ==
  [][\A p \in Players :
       (StartStep(p) /\ reply'.status = "ok")
       => Len(gameStates'[p].questions) >= reply'.questionsCount]_vars

(***************************************************************************)
(* C18: the calls for one player are serialized.  Every step of a          *)
(* behaviour, in which startGame calls are suspended at their fetch while   *)
(* other calls for the same player run, leaves the session of the player   *)
(* as it was or changes it by the whole effect of one call on the session  *)
(* as it is at that step: a new game, one answer, one hint or one skip.    *)
(* An answer is given to a question that has no answer yet, advances the   *)
(* index by one and adds the points it reports to the score.               *)
(***************************************************************************)
\* the session of p, if any
SessionOf(map, p) == IF p \in DOMAIN map THEN <<map[p]>> ELSE << >>

\* after is before with the one current question answered
OneAnswer(before, after, gained) ==
  LET at == before.currentQuestionIndex + 1
  IN /\ at \in DOMAIN before.questions
     /\ ~before.questions[at].answered
     /\ before.questions[at].userAnswer = << >>
     /\ after.questions[at].answered
     /\ Len(after.questions[at].userAnswer) = 1
     /\ \A i \in DOMAIN before.questions \ {at} :
          after.questions[i] = before.questions[i]
     /\ Len(after.questions) = Len(before.questions)
     /\ after.currentQuestionIndex = before.currentQuestionIndex + 1
     /\ after.score = before.score + gained
     /\ after.streak \in {0, before.streak + 1}
     /\ after.hintsUsed = before.hintsUsed
     /\ after.skipsUsed = before.skipsUsed

OneHint(before, after) ==
  after = [before EXCEPT
             !.score = IF @ - 2 < 0 THEN 0 ELSE @ - 2,
             !.hintsUsed = @ + 1]

OneSkip(before, after) ==
  after = [before EXCEPT
             !.score = IF @ - 1 < 0 THEN 0 ELSE @ - 1,
             !.skipsUsed = @ + 1,
             !.streak = 0,
             !.currentQuestionIndex = @ + 1]

C18_Serialized ==
  [][\A p \in Players :
       \/ SessionOf(gameStates', p) = SessionOf(gameStates, p)
       \/ /\ StartStep(p)
          /\ reply'.status = "ok"
          /\ Fresh(gameStates'[p])
       \/ /\ p \in DOMAIN gameStates
          /\ p \in DOMAIN gameStates'
          /\ reply'.status = "ok"
          /\ reply'.playerId = p
          /\ \/ AnswerStep(p)
                /\ OneAnswer(gameStates[p], gameStates'[p], reply'.scoreGained)
             \/ HintStep(p) /\ OneHint(gameStates[p], gameStates'[p])
             \/ SkipStep(p) /\ OneSkip(gameStates[p], gameStates'[p])]_vars

\* an answer of p1 was taken for the second question of its game, with
\* points, while a startGame call of p1 is suspended at its fetch
C18_Witness ==
  /\ reply.op = "answerQuestion" /\ reply.status = "ok" /\ reply.playerId = "p1"
  /\ reply.scoreGained > 0
  /\ gameStates["p1"].currentQuestionIndex = 2
  /\ \E questionsCount \in QuestionCounts : inflight[<<"p1", questionsCount>>] > 0

(***************************************************************************)
(* C20: a hint that is granted lowers the score by 2, not below 0, and     *)
(* raises hintsUsed by 1; currentQuestionIndex, streak, skipsUsed and the  *)
(* questions with their answered and userAnswer fields stay as they are.   *)
(***************************************************************************)
C20_HintFrame ==
  [][\A p \in DOMAIN gameStates :
       (HintStep(p) /\ reply'.status = "ok")
       => /\ p \in DOMAIN gameStates'
          /\ gameStates'[p].score =
               IF gameStates[p].score - 2 < 0 THEN 0 ELSE gameStates[p].score - 2
          /\ gameStates'[p].hintsUsed = gameStates[p].hintsUsed + 1
          /\ gameStates'[p].currentQuestionIndex = gameStates[p].currentQuestionIndex
          /\ gameStates'[p].streak = gameStates[p].streak
          /\ gameStates'[p].skipsUsed = gameStates[p].skipsUsed
          /\ gameStates'[p].questions = gameStates[p].questions
          /\ gameStates'[p].playerId = gameStates[p].playerId]_vars

\* a hint was granted in a game with a streak, a skip and an answered
\* question
C20_Witness ==
  \E p \in DOMAIN gameStates :
    /\ reply.op = "getHint" /\ reply.status = "ok" /\ reply.playerId = p
    /\ gameStates[p].streak >= 1
    /\ gameStates[p].skipsUsed >= 1
    /\ gameStates[p].score >= 8
    /\ gameStates[p].hintsUsed = 1

(***************************************************************************)
(* C19: a call of any of the six tools for one player leaves the session   *)
(* of every other player as it was, at every step of every interleaving of *)
(* the calls of the two players; getLeaderboard, which is called for no    *)
(* player, leaves every session as it was.                                 *)
(***************************************************************************)
\* the step belongs to a call for the player a
CallFor(a) ==
  \/ \E questionsCount \in QuestionCounts : StartGameCall(a, questionsCount)
  \/ StartStep(a)
  \/ AnswerStep(a)
  \/ HintStep(a)
  \/ SkipStep(a)
  \/ StatsStep(a)

C19_OtherPlayersUntouched ==
  [][/\ \A a \in Players :
          \A b \in Players \ {a} :
            SessionOf(gameStates', b) # SessionOf(gameStates, b) => ~CallFor(a)
     /\ GetLeaderboard => gameStates' = gameStates]_vars

\* p1 was given points for an answer while p2 has a session with points of
\* its own and a hint taken
C19_Witness ==
  /\ reply.op = "answerQuestion" /\ reply.status = "ok" /\ reply.playerId = "p1"
  /\ reply.scoreGained > 0
  /\ "p2" \in DOMAIN gameStates
  /\ gameStates["p2"].hintsUsed = 1
  /\ gameStates["p2"].score = 10

(***************************************************************************)
(* C21: a skip that is granted lowers the score by 1, not below 0, raises  *)
(* skipsUsed by 1 and leaves the answered and userAnswer fields of every   *)
(* question as they are.  A question that was passed without an answer     *)
(* stays without one until the player starts a new game, and the           *)
(* questionsAnswered of the leaderboard does not count it.                 *)
(***************************************************************************)
\* the positions the index has passed that hold no answer
Skipped(gameState) ==
  {i \in DOMAIN gameState.questions :
     /\ i <= gameState.currentQuestionIndex
     /\ ~gameState.questions[i].answered}

\* the positions the index has passed
Passed(gameState) ==
  {i \in DOMAIN gameState.questions : i <= gameState.currentQuestionIndex}

C21_SkipFrame ==
  [][/\ \A p \in DOMAIN gameStates :
          /\ (SkipStep(p) /\ reply'.status = "ok")
             => /\ gameStates'[p].score =
                     IF gameStates[p].score - 1 < 0 THEN 0
                     ELSE gameStates[p].score - 1
                /\ gameStates'[p].skipsUsed = gameStates[p].skipsUsed + 1
                /\ gameStates'[p].questions = gameStates[p].questions
                /\ gameStates[p].currentQuestionIndex + 1
                     \in DOMAIN gameStates[p].questions
                   => gameStates[p].currentQuestionIndex + 1
                        \in Skipped(gameStates'[p])
          /\ ~(StartStep(p) /\ reply'.status = "ok")
             => Skipped(gameStates[p]) \subseteq Skipped(gameStates'[p])
     /\ reply'.op = "getLeaderboard"
        => \A i \in DOMAIN reply'.leaderboard :
             LET gameState == gameStates'[reply'.leaderboard[i].playerId]
             IN reply'.leaderboard[i].questionsAnswered =
                  Cardinality(Passed(gameState) \ Skipped(gameState))]_vars

\* the second question was skipped after an answer to the first that gave
\* points
C21_Witness ==
  \E p \in DOMAIN gameStates :
    /\ reply.op = "skipQuestion" /\ reply.status = "ok" /\ reply.playerId = p
    /\ gameStates[p].questions[1].answered
    /\ Skipped(gameStates[p]) = {2}
    /\ gameStates[p].skipsUsed = 1
    /\ gameStates[p].score >= 9

(***************************************************************************)
(* C22: the answer of a question is recorded at most once in a session.    *)
(* Only an answerQuestion call that is taken sets answered, for the         *)
(* question at currentQuestionIndex and no other, and records the answer   *)
(* as it was given, correct or not; a question that is answered keeps its  *)
(* answered and userAnswer fields until the player starts a new game.      *)
(***************************************************************************)
C22_AnsweredOnce ==
  [][\A p \in DOMAIN gameStates :
       ~(StartStep(p) /\ reply'.status = "ok")
       => /\ p \in DOMAIN gameStates'
          /\ DOMAIN gameStates'[p].questions = DOMAIN gameStates[p].questions
          /\ \A i \in DOMAIN gameStates[p].questions :
               LET before == gameStates[p].questions[i]
                   after == gameStates'[p].questions[i]
               IN /\ before.answered
                     => /\ after.answered
                        /\ after.userAnswer = before.userAnswer
                  /\ (~before.answered /\ after.answered)
                     => /\ i = gameStates[p].currentQuestionIndex + 1
                        /\ reply'.status = "ok"
                        /\ \E answer \in RawAnswers :
                             /\ AnswerQuestion(p, answer)
                             /\ after.userAnswer = <<answer>>
                  /\ ~after.answered => after.userAnswer = << >>]_vars

\* a wrong answer to the second question was recorded as it was given, and
\* the answer to the first question is still the one recorded before
C22_Witness ==
  \E p \in DOMAIN gameStates :
    /\ reply.op = "answerQuestion" /\ reply.status = "ok" /\ reply.playerId = p
    /\ ~reply.correct
    /\ gameStates[p].currentQuestionIndex = 2
    /\ gameStates[p].questions[1].answered
    /\ gameStates[p].questions[1].userAnswer = << <<" ", "x", " ">> >>
    /\ gameStates[p].questions[2].answered
    /\ gameStates[p].questions[2].userAnswer = << <<"b">> >>

(***************************************************************************)
(* C23: every question of every stored session has 4 options and its       *)
(* correct answer is one of them, whatever records the provider returned.  *)
(***************************************************************************)
\* the values in the array
Elements(array) == {array[i] : i \in DOMAIN array}

C23_FourOptions ==
  \A p \in DOMAIN gameStates :
    \A i \in DOMAIN gameStates[p].questions :
      /\ Len(gameStates[p].questions[i].options) = 4
      /\ gameStates[p].questions[i].correct
           \in Elements(gameStates[p].questions[i].options)

\* the rest of C23: the options, their order and the correct answer of a
\* question stay as startGameTool made them until the next game is started
C23_OptionsImmutable ==
  [][\A p \in DOMAIN gameStates :
       ~(StartStep(p) /\ reply'.status = "ok")
       => /\ p \in DOMAIN gameStates'
          /\ DOMAIN gameStates'[p].questions = DOMAIN gameStates[p].questions
          /\ \A i \in DOMAIN gameStates[p].questions :
               /\ gameStates'[p].questions[i].options
                    = gameStates[p].questions[i].options
               /\ gameStates'[p].questions[i].correct
                    = gameStates[p].questions[i].correct]_vars

(***************************************************************************)
(* C24: a hint that is granted returns two options of the current          *)
(* question: its correct answer and one option that is not the correct     *)
(* answer.                                                                 *)
(***************************************************************************)
C24_HintOptions ==
  (reply.op = "getHint" /\ reply.status = "ok")
  => LET currentQuestion == CurrentQuestion(gameStates[reply.playerId])
         hint == reply.remainingOptions
     IN /\ Len(hint) = 2
        /\ Elements(hint) \subseteq Elements(currentQuestion.options)
        /\ Cardinality({i \in DOMAIN hint : hint[i] = currentQuestion.correct}) = 1
        /\ Cardinality({i \in DOMAIN hint : hint[i] # currentQuestion.correct}) = 1

(***************************************************************************)
(* C25: in every state of every session currentQuestionIndex is the number *)
(* of answered questions plus skipsUsed, and no question at the index or   *)
(* behind it is answered.                                                  *)
(***************************************************************************)
C25_IndexAccounting ==
  \A p \in DOMAIN gameStates :
    LET gameState == gameStates[p]
    IN /\ gameState.currentQuestionIndex
            = Cardinality(AnsweredQuestions(gameState)) + gameState.skipsUsed
       /\ \A i \in DOMAIN gameState.questions :
            i - 1 >= gameState.currentQuestionIndex
            => ~gameState.questions[i].answered

\* one question answered, one skipped, the third not reached yet
C25_Witness ==
  \E p \in DOMAIN gameStates :
    /\ Len(gameStates[p].questions) = 3
    /\ gameStates[p].currentQuestionIndex = 2
    /\ gameStates[p].skipsUsed = 1
    /\ gameStates[p].questions[2].answered
    /\ ~gameStates[p].questions[1].answered
    /\ ~gameStates[p].questions[3].answered

(***************************************************************************)
(* C26: a session that has a current question takes an answer, whatever    *)
(* hints were asked for, and the answer moves it on by one question; if    *)
(* the player keeps answering and starts no other game the session gets to *)
(* Completed, and it does with as many answers and skips taken as it has   *)
(* questions.                                                              *)
(***************************************************************************)
C26_Terminates ==
  /\ [][\A p \in DOMAIN gameStates :
          (HasCurrentQuestion(gameStates[p]) /\ AnswerStep(p))
          => /\ reply'.status = "ok"
             /\ gameStates'[p].currentQuestionIndex
                  = gameStates[p].currentQuestionIndex + 1]_vars
  /\ \A p \in Callers :
       (p \in DOMAIN gameStates /\ HasCurrentQuestion(gameStates[p]))
       ~> /\ p \in DOMAIN gameStates
          /\ Completed(gameStates[p])
          /\ Cardinality({i \in DOMAIN gameStates[p].questions :
                            gameStates[p].questions[i].answered})
               + gameStates[p].skipsUsed = Len(gameStates[p].questions)

\* the last answer of a game of three questions was taken after three hints
\* and a skip
C26_Witness ==
  \E p \in DOMAIN gameStates :
    /\ reply.op = "answerQuestion" /\ reply.status = "ok" /\ reply.playerId = p
    /\ reply.gameCompleted
    /\ Len(gameStates[p].questions) = 3
    /\ Completed(gameStates[p])
    /\ gameStates[p].hintsUsed = 3
    /\ gameStates[p].skipsUsed = 1

====
